---- MODULE Spec2Model ----
(***************************************************************************)
(* ComplaintService (src/app/complaint_service.py) over the complaints and *)
(* media_attachments tables (src/app/models.py) and the upload directory.  *)
(*                                                                         *)
(* Strings the code slices, upper-cases or matches are sequences of        *)
(* one-character strings; opaque strings are TLA+ strings.  A byte string  *)
(* is a record [len, bytes]: its length and a tag naming its bytes.        *)
(* Each caller in Procs runs one service call at a time; a call is a       *)
(* sequence of steps separated by the store and file-system operations it  *)
(* performs, so calls of different callers interleave at those points.     *)
(***************************************************************************)
EXTENDS Integers, Sequences, FiniteSets, TLC

\* ------------------------------------------------------------------ bounds
MaxComplaints == 2
MaxAttachments == 2
MaxFiles == 2
MaxClock == 1
MaxStoreRows == 2

\* the callers: Spec runs one call at a time (Callers), SpecConcurrent
\* interleaves the calls of all of Procs
Procs == {"p1", "p2"}
Callers == {"p1"}

None == "None"

\* id: Optional[int] = Field(default=None, primary_key=True): not yet assigned
NoId == 0

\* ------------------------------------------------------------------ enums
ComplaintStatus == {"pending", "under_review", "resolved", "dismissed"}
PENDING == "pending"
RESOLVED == "resolved"

ComplaintCategory ==
    <<"excessive_force", "misconduct", "discrimination", "corruption",
      "harassment", "abuse_of_power", "other">>

ComplaintUrgency == {"low", "medium", "high", "critical"}

MediaType == {"image", "video", "audio", "document"}

\* ------------------------------------------------------------ class fields
UPLOAD_DIR == "uploads"
MAX_FILE_SIZE == 50 * 1024 * 1024
\* get_all_complaints(limit=100); search_complaints ends in .limit(50)
DEFAULT_LIMIT == 100
SEARCH_LIMIT == 50

ALLOWED_MIME_TYPES ==
    { <<"i","m","a","g","e","/","j","p","e","g">>,
      <<"i","m","a","g","e","/","p","n","g">>,
      <<"i","m","a","g","e","/","g","i","f">>,
      <<"i","m","a","g","e","/","w","e","b","p">>,
      <<"v","i","d","e","o","/","m","p","4">>,
      <<"v","i","d","e","o","/","w","e","b","m">>,
      <<"v","i","d","e","o","/","q","u","i","c","k","t","i","m","e">>,
      <<"a","u","d","i","o","/","m","p","e","g">>,
      <<"a","u","d","i","o","/","w","a","v">>,
      <<"a","u","d","i","o","/","o","g","g">>,
      <<"a","p","p","l","i","c","a","t","i","o","n","/","p","d","f">>,
      <<"t","e","x","t","/","p","l","a","i","n">> }

\* ---------------------------------------------------------------- uuid4
HexDigits ==
    <<"0","1","2","3","4","5","6","7","8","9","a","b","c","d","e","f">>

\* uuid.uuid4().hex: 32 lowercase hex digits, version nibble 4, variant 8..b.
\* The generator may yield any of them; hi picks the first 8 digits (distinct
\* digits for distinct hi below 256), lo the rest.
Uuid4HexOf(hi, lo) ==
    [i \in 1..32 |->
        IF i = 13 THEN "4"
        ELSE IF i = 17 THEN "8"
        ELSE IF i = 1 THEN HexDigits[((hi * 11 + 7 + hi \div 16) % 16) + 1]
        ELSE IF i <= 8 THEN HexDigits[((hi * 11 + i * 7) % 16) + 1]
        ELSE HexDigits[((lo * 5 + i) % 16) + 1]]

Uuid4Hex == { Uuid4HexOf(hi, lo) : hi \in 0..MaxComplaints, lo \in 0..1 }

\* str.upper() on one character: the letters the model's strings use
UpperChar(c) ==
    CASE c = "a" -> "A" [] c = "b" -> "B" [] c = "c" -> "C"
      [] c = "d" -> "D" [] c = "e" -> "E" [] c = "f" -> "F"
      [] c = "p" -> "P" [] c = "z" -> "Z"
      [] OTHER -> c

Upper(s) == [i \in 1..Len(s) |-> UpperChar(s[i])]

\* s[:n]
Prefix(s, n) == SubSeq(s, 1, IF n < Len(s) THEN n ELSE Len(s))

GenerateTrackingIdNoUpper(u) == <<"P", "C", "-">> \o Prefix(u, 8)

\* _generate_tracking_id with uuid4().hex = u
GenerateTrackingId(u) == <<"P", "C", "-">> \o Upper(Prefix(u, 8))

\* ------------------------------------------------------------------ inputs
\* ComplaintCreate drafts (already validated by the schema).
Drafts ==
    { [title |-> "Test complaint",
       description |-> "This is a test complaint description",
       category |-> "misconduct", urgency |-> "high",
       incident_date |-> None, incident_location |-> None,
       officer_badge_number |-> None, officer_name |-> None,
       contact_email |-> None, contact_phone |-> None],
      [title |-> "Traffic stop complaint",
       description |-> "Officer was unprofessional during traffic stop",
       category |-> "harassment", urgency |-> "medium",
       incident_date |-> "2024-01-15T14:30",
       incident_location |-> "Main St and 5th Ave",
       officer_badge_number |-> "1234", officer_name |-> "Officer Smith",
       contact_email |-> "witness@example.com",
       contact_phone |-> "555-0123"] }

ClientIps == {None, "127.0.0.1"}

\* the (draft, client_ip) pairs callers submit
CreateInputs ==
    { <<d, ip>> \in Drafts \X ClientIps : (ip = None) <=> (d.incident_date # None) }

\* byte strings: a length and a tag naming the bytes
SmallContent == [len |-> 18, bytes |-> "fake image content"]
EmptyContent == [len |-> 0, bytes |-> ""]
CapContent == [len |-> MAX_FILE_SIZE, bytes |-> "x * MAX_FILE_SIZE"]
OverCapContent == [len |-> MAX_FILE_SIZE + 1, bytes |-> "x * (MAX_FILE_SIZE + 1)"]

ImageJpeg == <<"i","m","a","g","e","/","j","p","e","g">>
ApplicationPdf == <<"a","p","p","l","i","c","a","t","i","o","n","/","p","d","f">>
TextPlain == <<"t","e","x","t","/","p","l","a","i","n">>
VideoMp4 == <<"v","i","d","e","o","/","m","p","4">>
ApplicationXExecutable ==
    <<"a","p","p","l","i","c","a","t","i","o","n","/",
      "x","-","e","x","e","c","u","t","a","b","l","e">>

\* the (filename, content, mime_type) triples callers upload
AttachInputs ==
    { <<"test_image.jpg", SmallContent, ImageJpeg>>,
      <<"report.pdf", CapContent, ApplicationPdf>>,
      <<"test_image.jpg", EmptyContent, ImageJpeg>>,
      <<"test_image.jpg", OverCapContent, ImageJpeg>>,
      <<"test.exe", SmallContent, ApplicationXExecutable>> }

\* uploads of one byte string as a video and as a text document
UploadInputs ==
    { <<"clip.mp4", SmallContent, VideoMp4>>,
      <<"notes.txt", SmallContent, TextPlain>> }

\* the complaint ids callers pass: ids the store may hold, and one it never holds
ComplaintIdInputs == {1, MaxComplaints + 1}

\* ------------------------------------------------------------------- state
VARIABLES
    complaints,     \* the complaints table, in insertion order
    attachments,    \* the media_attachments table, in insertion order
    files,          \* the regular files on disk: records [path, content]
    dirs,           \* the complaint directories existing under UPLOAD_DIR
    now,            \* the wall clock datetime.utcnow() reads
    pc,             \* per caller: where its current call stands
    call,           \* per caller: the arguments and locals of its call
    ret,            \* per caller: how its last call ended
    ui              \* the complaint form page of one browser tab

vars == <<complaints, attachments, files, dirs, now, pc, call, ret, ui>>

\* the call has not built its Complaint object yet
NoComplaint == [built |-> FALSE]

NoCall == [op |-> "none"]
NoRet == [kind |-> "none"]
Absent == [kind |-> "absent"]
Raised(e) == [kind |-> "raised", exc |-> e]

\* the form page as it is first rendered: empty fields, no file chosen
NoForm ==
    [stage |-> "form", title |-> <<>>, description |-> <<>>,
     uploaded_files |-> <<>>, next_file |-> 0,
     complaint_id |-> NoId, tracking_id |-> <<>>, outcomes |-> <<>>,
     notifications |-> {}, submitted_tracking_id |-> <<>>, page |-> "/submit"]

CreatePcs == {"check", "commit", "refresh"}
AttachPcs == {"save", "insert", "att_refresh", "cleanup"}

Init ==
    /\ complaints = <<>>
    /\ attachments = <<>>
    /\ files = {}
    /\ dirs = {}
    /\ now = 0
    /\ pc = [p \in Procs |-> "idle"]
    /\ call = [p \in Procs |-> NoCall]
    /\ ret = [p \in Procs |-> NoRet]
    /\ ui = NoForm

\* ------------------------------------------------------------------- store
ComplaintIds == { complaints[i].id : i \in DOMAIN complaints }

TrackingIdTakenNever(tid) == FALSE

\* select(Complaint).where(Complaint.tracking_id == tid) ... .first()
TrackingIdTaken(tid) ==
    \E i \in DOMAIN complaints : complaints[i].tracking_id = tid

UniqueViolationNever(row) == FALSE

\* tracking_id: Field(unique=True): the INSERT of row is refused
UniqueViolation(row) ==
    \E i \in DOMAIN complaints : complaints[i].tracking_id = row.tracking_id

\* id: Field(default=None, primary_key=True): assigned by the store
NextComplaintId == Len(complaints) + 1

ComplaintById(id) ==
    complaints[CHOOSE i \in DOMAIN complaints : complaints[i].id = id]

NewComplaintDropsIp(data, ip, tid, t1, t2) ==
    [id |-> NoId, tracking_id |-> tid,
     title |-> data.title, description |-> data.description,
     category |-> data.category, urgency |-> data.urgency,
     incident_date |-> data.incident_date,
     incident_location |-> data.incident_location,
     officer_badge_number |-> data.officer_badge_number,
     officer_name |-> data.officer_name,
     contact_email |-> data.contact_email,
     contact_phone |-> data.contact_phone,
     submitted_ip |-> None, status |-> PENDING,
     created_at |-> t1, updated_at |-> t2,
     additional_metadata |-> {}]

\* Complaint(...) of create_complaint; t1, t2 are its two utcnow() readings
NewComplaint(data, ip, tid, t1, t2) ==
    [id |-> NoId, tracking_id |-> tid,
     title |-> data.title, description |-> data.description,
     category |-> data.category, urgency |-> data.urgency,
     incident_date |-> data.incident_date,
     incident_location |-> data.incident_location,
     officer_badge_number |-> data.officer_badge_number,
     officer_name |-> data.officer_name,
     contact_email |-> data.contact_email,
     contact_phone |-> data.contact_phone,
     submitted_ip |-> ip, status |-> PENDING,
     created_at |-> t1, updated_at |-> t2,
     additional_metadata |-> {}]

\* ------------------------------------------------------- create_complaint
InFlightCreates == Cardinality({ q \in Procs : pc[q] \in CreatePcs })

\* lines 81-83: open the session, generate the first tracking id
BeginCreate(p, data, ip) ==
    /\ pc[p] \in {"idle", "done"}
    /\ Len(complaints) + InFlightCreates < MaxComplaints
    /\ \E u \in Uuid4Hex :
          call' = [call EXCEPT ![p] =
                      [op |-> "create", data |-> data, ip |-> ip,
                       tracking_id |-> GenerateTrackingId(u),
                       retried |-> FALSE, complaint |-> NoComplaint]]
    /\ pc' = [pc EXCEPT ![p] = "check"]
    /\ ret' = [ret EXCEPT ![p] = NoRet]
    /\ UNCHANGED <<complaints, attachments, files, dirs, now>>

\* create_complaint called by a caller other than the form
CreateStart(p, data, ip) ==
    /\ BeginCreate(p, data, ip)
    /\ UNCHANGED ui

CreateCheckOneRetry(p) ==
    /\ pc[p] = "check"
    /\ IF TrackingIdTaken(call[p].tracking_id) /\ ~call[p].retried
       THEN /\ \E u \in Uuid4Hex :
                  call' = [call EXCEPT ![p].tracking_id = GenerateTrackingId(u),
                                       ![p].retried = TRUE]
            /\ UNCHANGED <<pc, now>>
       ELSE \E t1 \in {now, now + 1}, t2 \in {now, now + 1} :
            /\ t1 <= t2
            /\ t2 <= MaxClock
            /\ call' = [call EXCEPT ![p].complaint =
                          NewComplaint(call[p].data, call[p].ip,
                                       call[p].tracking_id, t1, t2)]
            /\ now' = t2
            /\ pc' = [pc EXCEPT ![p] = "commit"]
    /\ UNCHANGED <<complaints, attachments, files, dirs, ret>>
    /\ UNCHANGED ui

\* lines 86-106: one evaluation of the while condition; either regenerate,
\* or leave the loop and build the Complaint (two clock readings)
CreateCheck(p) ==
    /\ pc[p] = "check"
    /\ IF TrackingIdTaken(call[p].tracking_id)
       THEN /\ \E u \in Uuid4Hex :
                  call' = [call EXCEPT ![p].tracking_id = GenerateTrackingId(u),
                                       ![p].retried = TRUE]
            /\ UNCHANGED <<pc, now>>
       ELSE \E t1 \in {now, now + 1}, t2 \in {now, now + 1} :
            /\ t1 <= t2
            /\ t2 <= MaxClock
            /\ call' = [call EXCEPT ![p].complaint =
                          NewComplaint(call[p].data, call[p].ip,
                                       call[p].tracking_id, t1, t2)]
            /\ now' = t2
            /\ pc' = [pc EXCEPT ![p] = "commit"]
    /\ UNCHANGED <<complaints, attachments, files, dirs, ret>>
    /\ UNCHANGED ui

CreateCommitKeepsRow(p) ==
    /\ pc[p] = "commit"
    /\ \/ /\ ~UniqueViolation(call[p].complaint)
          /\ complaints' = Append(complaints,
                [call[p].complaint EXCEPT !.id = NextComplaintId])
          /\ call' = [call EXCEPT ![p].complaint.id = NextComplaintId]
          /\ pc' = [pc EXCEPT ![p] = "refresh"]
          /\ UNCHANGED ret
       \/ /\ complaints' = Append(complaints,
                [call[p].complaint EXCEPT !.id = NextComplaintId])
          /\ ret' = [ret EXCEPT ![p] = Raised("OperationalError")]
          /\ pc' = [pc EXCEPT ![p] = "done"]
          /\ UNCHANGED call
    /\ UNCHANGED <<attachments, files, dirs, now>>
    /\ UNCHANGED ui

CreateCommitRetriesCode(p) ==
    /\ pc[p] = "commit"
    /\ \/ /\ UniqueViolation(call[p].complaint)
          /\ \E u \in Uuid4Hex :
                call' = [call EXCEPT ![p].tracking_id = GenerateTrackingId(u),
                                     ![p].retried = TRUE]
          /\ pc' = [pc EXCEPT ![p] = "check"]
          /\ UNCHANGED <<complaints, ret>>
       \/ /\ ~UniqueViolation(call[p].complaint)
          /\ complaints' = Append(complaints,
                [call[p].complaint EXCEPT !.id = NextComplaintId])
          /\ call' = [call EXCEPT ![p].complaint.id = NextComplaintId]
          /\ pc' = [pc EXCEPT ![p] = "refresh"]
          /\ UNCHANGED ret
       \/ /\ ret' = [ret EXCEPT ![p] = Raised("OperationalError")]
          /\ pc' = [pc EXCEPT ![p] = "done"]
          /\ UNCHANGED <<complaints, call>>
    /\ UNCHANGED <<attachments, files, dirs, now>>
    /\ UNCHANGED ui

\* lines 108-109: session.add; session.commit
CreateCommit(p) ==
    /\ pc[p] = "commit"
    /\ \/ /\ UniqueViolation(call[p].complaint)
          /\ ret' = [ret EXCEPT ![p] = Raised("IntegrityError")]
          /\ pc' = [pc EXCEPT ![p] = "done"]
          /\ UNCHANGED <<complaints, call>>
       \/ /\ ~UniqueViolation(call[p].complaint)
          /\ complaints' = Append(complaints,
                [call[p].complaint EXCEPT !.id = NextComplaintId])
          /\ call' = [call EXCEPT ![p].complaint.id = NextComplaintId]
          /\ pc' = [pc EXCEPT ![p] = "refresh"]
          /\ UNCHANGED ret
       \/ /\ ret' = [ret EXCEPT ![p] = Raised("OperationalError")]
          /\ pc' = [pc EXCEPT ![p] = "done"]
          /\ UNCHANGED <<complaints, call>>
    /\ UNCHANGED <<attachments, files, dirs, now>>
    /\ UNCHANGED ui

\* lines 110-112: session.refresh reloads the row; return (complaint, code)
CreateRefresh(p) ==
    /\ pc[p] = "refresh"
    /\ \/ ret' = [ret EXCEPT ![p] =
                    [kind |-> "created",
                     complaint |-> ComplaintById(call[p].complaint.id),
                     tracking_id |-> call[p].tracking_id]]
       \/ ret' = [ret EXCEPT ![p] = Raised("OperationalError")]
    /\ pc' = [pc EXCEPT ![p] = "done"]
    /\ UNCHANGED <<complaints, attachments, files, dirs, now, call>>
    /\ UNCHANGED ui

\* ------------------------------------------------------------ file system
SafeFilenameNoToken(token, filename) == <<Prefix(token, 0), "_", filename>>

\* complaint_dir / f"{token}_{filename}" under UPLOAD_DIR / str(complaint_id)
SafeFilename(token, filename) == <<token, "_", filename>>

FilePath(complaint_id, token, filename) ==
    <<UPLOAD_DIR, complaint_id, SafeFilename(token, filename)>>

\* file_path.exists()
FileExists(path) == \E f \in files : f.path = path

\* open(path, "wb"); write(content): creates the file or replaces its content
WriteFile(fs, path, content) ==
    { f \in fs : f.path # path } \cup {[path |-> path, content |-> content]}

UnlinkKeepsFile(fs, path) == fs

\* file_path.unlink()
Unlink(fs, path) == { f \in fs : f.path # path }

\* the tokens uuid4().hex yields in _save_file
FileTokens == { Uuid4HexOf(0, lo) : lo \in 0..(MaxFiles - 1) }

\* the token of a path _save_file built
TokenOf(path) == path[3][1]

\* uuid4 values do not repeat (only their 8-digit prefixes, the tracking
\* codes, may): the tokens no file and no attachment row carries
FreshTokens ==
    FileTokens \ ( { TokenOf(f.path) : f \in files } \cup
                   { TokenOf(attachments[i].file_path) :
                       i \in DOMAIN attachments } )

\* what a failed write leaves in the file open() created or truncated
PartialWrites(content) ==
    { [len |-> k, bytes |-> content.bytes] : k \in {0} }

\* ------------------------------------------------------ attachment helpers
IsValidFileOffByOne(content, mime_type) ==
    /\ ~(content.len = 0 \/ content.len >= MAX_FILE_SIZE)
    /\ mime_type \in ALLOWED_MIME_TYPES

\* _is_valid_file
IsValidFile(content, mime_type) ==
    IF content.len = 0 \/ content.len > MAX_FILE_SIZE
    THEN FALSE
    ELSE IF mime_type \notin ALLOWED_MIME_TYPES
    THEN FALSE
    ELSE TRUE

\* hashlib.sha256(content).hexdigest() of the byte strings above
Sha256Hexdigest(content) ==
    CASE content = SmallContent ->
            <<"0","3","7","5","4","2","7","1","b","0","0","a","0","e","1","c",
              "7","6","1","3","8","4","c","9","d","d","0","e","7","5","7","5",
              "a","e","9","4","2","a","e","4","c","0","9","5","2","c","f","4",
              "b","6","4","d","a","8","5","f","7","c","1","6","8","3","0","7">>
      [] content = EmptyContent ->
            <<"e","3","b","0","c","4","4","2","9","8","f","c","1","c","1","4",
              "9","a","f","b","f","4","c","8","9","9","6","f","b","9","2","4",
              "2","7","a","e","4","1","e","4","6","4","9","b","9","3","4","c",
              "a","4","9","5","9","9","1","b","7","8","5","2","b","8","5","5">>
      [] content = CapContent ->
            <<"a","2","7","0","1","7","4","5","0","e","d","5","f","6","a","c",
              "3","3","4","f","f","a","9","b","e","4","0","1","a","5","a","e",
              "1","f","2","4","4","6","5","a","a","c","9","b","9","8","a","7",
              "9","0","d","0","e","e","c","6","8","3","3","5","9","9","d","9">>
      [] content = OverCapContent ->
            <<"1","c","e","4","5","d","3","6","9","c","9","3","1","f","d","d",
              "4","6","5","d","d","e","4","4","1","6","c","7","8","0","b","b",
              "0","9","7","6","b","6","5","3","b","6","b","e","c","d","e","e",
              "a","e","d","6","1","e","7","b","8","e","c","f","9","e","f","3">>

\* _calculate_file_hash
CalculateFileHash(content) == Sha256Hexdigest(content)

\* str.startswith
StartsWith(s, prefix) ==
    /\ Len(s) >= Len(prefix)
    /\ SubSeq(s, 1, Len(prefix)) = prefix
DetermineMediaTypeNoVideo(mime_type) ==
    IF StartsWith(mime_type, <<"i","m","a","g","e","/">>) THEN "image"
    ELSE IF StartsWith(mime_type, <<"a","u","d","i","o","/">>) THEN "audio"
    ELSE "document"

\* _determine_media_type
DetermineMediaType(mime_type) ==
    IF StartsWith(mime_type, <<"i","m","a","g","e","/">>) THEN "image"
    ELSE IF StartsWith(mime_type, <<"v","i","d","e","o","/">>) THEN "video"
    ELSE IF StartsWith(mime_type, <<"a","u","d","i","o","/">>) THEN "audio"
    ELSE "document"

ComplaintExistsAlways(complaint_id) == TRUE

\* session.get(Complaint, complaint_id)
ComplaintExists(complaint_id) == complaint_id \in ComplaintIds

NextAttachmentId == Len(attachments) + 1

AttachmentById(id) ==
    attachments[CHOOSE i \in DOMAIN attachments : attachments[i].id = id]

NewAttachmentNameAsOriginal(path, filename, content, mime_type, complaint_id, t) ==
    [id |-> NoId, filename |-> path[3], original_filename |-> path[3],
     file_path |-> path, file_size |-> content.len, mime_type |-> mime_type,
     media_type |-> DetermineMediaType(mime_type),
     file_hash |-> CalculateFileHash(content), complaint_id |-> complaint_id,
     uploaded_at |-> t, is_processed |-> TRUE]
NewAttachmentHashesMimeType(path, filename, content, mime_type, complaint_id, t) ==
    [id |-> NoId, filename |-> path[3], original_filename |-> filename,
     file_path |-> path, file_size |-> content.len, mime_type |-> mime_type,
     media_type |-> DetermineMediaType(mime_type),
     file_hash |-> [CalculateFileHash(content) EXCEPT
                       ![64] = HexDigits[(Len(mime_type) % 16) + 1]],
     complaint_id |-> complaint_id,
     uploaded_at |-> t, is_processed |-> TRUE]

\* MediaAttachment(...) of add_media_attachment
NewAttachment(path, filename, content, mime_type, complaint_id, t) ==
    [id |-> NoId, filename |-> path[3], original_filename |-> filename,
     file_path |-> path, file_size |-> content.len, mime_type |-> mime_type,
     media_type |-> DetermineMediaType(mime_type),
     file_hash |-> CalculateFileHash(content), complaint_id |-> complaint_id,
     uploaded_at |-> t, is_processed |-> TRUE]

\* --------------------------------------------------- add_media_attachment
InFlightAttaches == Cardinality({ q \in Procs : pc[q] \in AttachPcs })

\* lines 118-124: validate, open the session, look the complaint up
BeginAttach(p, complaint_id, filename, content, mime_type) ==
    /\ pc[p] \in {"idle", "done"}
    /\ call' = [call EXCEPT ![p] =
                  [op |-> "attach", complaint_id |-> complaint_id,
                   filename |-> filename, content |-> content,
                   mime_type |-> mime_type, file_path |-> None,
                   attachment |-> None, exc |-> None, unlink_error |-> None]]
    /\ IF ~IsValidFile(content, mime_type)
       THEN /\ ret' = [ret EXCEPT ![p] = Absent]
            /\ pc' = [pc EXCEPT ![p] = "done"]
       ELSE IF ~ComplaintExists(complaint_id)
       THEN /\ ret' = [ret EXCEPT ![p] = Absent]
            /\ pc' = [pc EXCEPT ![p] = "done"]
       ELSE /\ Len(attachments) + InFlightAttaches < MaxAttachments
            /\ ret' = [ret EXCEPT ![p] = NoRet]
            /\ pc' = [pc EXCEPT ![p] = "save"]
    /\ UNCHANGED <<complaints, attachments, files, dirs, now>>

\* add_media_attachment called by a caller other than the form
AttachStart(p, complaint_id, filename, content, mime_type) ==
    /\ BeginAttach(p, complaint_id, filename, content, mime_type)
    /\ UNCHANGED ui

\* lines 128-144: _save_file (mkdir, token, open, write), hash, media type,
\* and the MediaAttachment built with one clock reading
AttachSave(p) ==
    /\ pc[p] = "save"
    /\ LET a == call[p] IN
       \/ \* complaint_dir.mkdir fails
          /\ ret' = [ret EXCEPT ![p] = Raised("OSError")]
          /\ pc' = [pc EXCEPT ![p] = "done"]
          /\ UNCHANGED <<files, dirs, now, call>>
       \/ \* open fails
          /\ dirs' = dirs \cup {a.complaint_id}
          /\ ret' = [ret EXCEPT ![p] = Raised("OSError")]
          /\ pc' = [pc EXCEPT ![p] = "done"]
          /\ UNCHANGED <<files, now, call>>
       \/ \* write fails in the opened file; file_path was never bound
          \E token \in FreshTokens, part \in PartialWrites(a.content) :
          /\ Cardinality(files) < MaxFiles
          /\ dirs' = dirs \cup {a.complaint_id}
          /\ files' = WriteFile(files,
                         FilePath(a.complaint_id, token, a.filename), part)
          /\ ret' = [ret EXCEPT ![p] = Raised("OSError")]
          /\ pc' = [pc EXCEPT ![p] = "done"]
          /\ UNCHANGED <<now, call>>
       \/ \E token \in FreshTokens, t \in {now, now + 1} :
          LET path == FilePath(a.complaint_id, token, a.filename) IN
          /\ Cardinality(files) < MaxFiles
          /\ t <= MaxClock
          /\ dirs' = dirs \cup {a.complaint_id}
          /\ files' = WriteFile(files, path, a.content)
          /\ now' = t
          /\ call' = [call EXCEPT
                ![p].file_path = path,
                ![p].attachment =
                    NewAttachment(path, a.filename, a.content, a.mime_type,
                                  a.complaint_id, t)]
          /\ pc' = [pc EXCEPT ![p] = "insert"]
          /\ UNCHANGED ret
    /\ UNCHANGED <<complaints, attachments>>
    /\ UNCHANGED ui

AttachCommitMarksComplaint(p) ==
    /\ pc[p] = "insert"
    /\ \/ /\ attachments' = Append(attachments,
                [call[p].attachment EXCEPT !.id = NextAttachmentId])
          /\ complaints' =
                [i \in DOMAIN complaints |->
                    IF complaints[i].id = call[p].complaint_id
                    THEN [complaints[i] EXCEPT !.status = "under_review"]
                    ELSE complaints[i]]
          /\ call' = [call EXCEPT ![p].attachment.id = NextAttachmentId]
          /\ pc' = [pc EXCEPT ![p] = "att_refresh"]
       \/ /\ call' = [call EXCEPT ![p].exc = "OperationalError"]
          /\ pc' = [pc EXCEPT ![p] = "cleanup"]
          /\ UNCHANGED <<attachments, complaints>>
    /\ UNCHANGED <<files, dirs, now, ret>>
    /\ UNCHANGED ui

\* lines 146-147: session.add; session.commit
AttachCommit(p) ==
    /\ pc[p] = "insert"
    /\ \/ /\ attachments' = Append(attachments,
                [call[p].attachment EXCEPT !.id = NextAttachmentId])
          /\ call' = [call EXCEPT ![p].attachment.id = NextAttachmentId]
          /\ pc' = [pc EXCEPT ![p] = "att_refresh"]
       \/ /\ call' = [call EXCEPT ![p].exc = "OperationalError"]
          /\ pc' = [pc EXCEPT ![p] = "cleanup"]
          /\ UNCHANGED attachments
    /\ UNCHANGED <<complaints, files, dirs, now, ret>>
    /\ UNCHANGED ui

\* lines 148-149: session.refresh reloads the row; return attachment
AttachRefresh(p) ==
    /\ pc[p] = "att_refresh"
    /\ \/ /\ ret' = [ret EXCEPT ![p] =
                      [kind |-> "attachment",
                       attachment |-> AttachmentById(call[p].attachment.id)]]
          /\ pc' = [pc EXCEPT ![p] = "done"]
          /\ UNCHANGED call
       \/ /\ call' = [call EXCEPT ![p].exc = "OperationalError"]
          /\ pc' = [pc EXCEPT ![p] = "cleanup"]
          /\ UNCHANGED ret
    /\ UNCHANGED <<complaints, attachments, files, dirs, now>>
    /\ UNCHANGED ui

SurfacedLastError(e, unlink_error) ==
    IF unlink_error = None THEN e ELSE unlink_error

\* lines 155-159: the unlink failure is passed over; raise e
Surfaced(e, unlink_error) == e

\* lines 151-159: the except block with file_path bound; call.exc is e,
\* call.unlink_error records what the inner try caught; here unlink succeeds
\* or is not attempted
AttachCleanup(p) ==
    /\ pc[p] = "cleanup"
    /\ LET path == call[p].file_path IN
       IF FileExists(path)
       THEN files' = Unlink(files, path)
       ELSE files' = files
    /\ call' = [call EXCEPT ![p].unlink_error = None]
    /\ ret' = [ret EXCEPT ![p] = Raised(Surfaced(call[p].exc, None))]
    /\ pc' = [pc EXCEPT ![p] = "done"]
    /\ UNCHANGED <<complaints, attachments, dirs, now>>
    /\ UNCHANGED ui

\* lines 151-159 when file_path.unlink() raises: except Exception: pass
AttachCleanupFails(p) ==
    /\ pc[p] = "cleanup"
    /\ FileExists(call[p].file_path)
    /\ call' = [call EXCEPT ![p].unlink_error = "PermissionError"]
    /\ ret' = [ret EXCEPT ![p] =
                  Raised(Surfaced(call[p].exc, "PermissionError"))]
    /\ pc' = [pc EXCEPT ![p] = "done"]
    /\ UNCHANGED <<complaints, attachments, files, dirs, now>>
    /\ UNCHANGED ui

CreateStep(p, inputs) ==
    \/ \E inp \in inputs : CreateStart(p, inp[1], inp[2])
    \/ CreateCheck(p)
    \/ CreateCommit(p)
    \/ CreateRefresh(p)

\* add_media_attachment on a file system whose unlink succeeds
AttachStepUnlinkOk(p, inputs) ==
    \/ \E cid \in ComplaintIdInputs, inp \in inputs :
          AttachStart(p, cid, inp[1], inp[2], inp[3])
    \/ AttachSave(p)
    \/ AttachCommit(p)
    \/ AttachRefresh(p)
    \/ AttachCleanup(p)

AttachStep(p, inputs) ==
    \/ AttachStepUnlinkOk(p, inputs)
    \/ AttachCleanupFails(p)

\* create_complaint, one call at a time
Next == \E p \in Callers : CreateStep(p, CreateInputs)

Spec == Init /\ [][Next]_vars

\* lines 86-87 under a fair generator: an iteration of the while loop in
\* which generate_tracking_id returns a code that no complaint holds
RegenerateUnused(p) ==
    /\ CreateCheck(p)
    /\ ~TrackingIdTaken(call'[p].tracking_id)

\* create_complaint with a fair generator: the loop's condition keeps being
\* evaluated, and a code that stays unused is eventually generated
SpecFair ==
    /\ Init
    /\ [][Next]_vars
    /\ \A p \in Callers : WF_vars(CreateCheck(p))
    /\ \A p \in Callers : WF_vars(RegenerateUnused(p))

\* concurrent create_complaint calls
ConcurrentInputs == { inp \in CreateInputs : inp[2] # None }

NextConcurrent == \E p \in Procs : CreateStep(p, ConcurrentInputs)

SpecConcurrent == Init /\ [][NextConcurrent]_vars

\* a store create_complaint has left: empty, or holding one complaint
StoredComplaint ==
    [NewComplaint(CHOOSE d \in Drafts : d.category = "misconduct", "127.0.0.1",
                  GenerateTrackingId(Uuid4HexOf(0, 0)), 0, 0) EXCEPT !.id = 1]

InitAttach ==
    /\ complaints \in {<<>>, <<StoredComplaint>>}
    /\ attachments = <<>>
    /\ files = {}
    /\ dirs = {}
    /\ now = 0
    /\ pc = [p \in Procs |-> "idle"]
    /\ call = [p \in Procs |-> NoCall]
    /\ ret = [p \in Procs |-> NoRet]
    /\ ui = NoForm

\* add_media_attachment calls on that store
NextAttach == \E p \in Callers : AttachStep(p, AttachInputs)

SpecAttach == InitAttach /\ [][NextAttach]_vars

\* add_media_attachment calls while every cleanup deletion succeeds
NextUnlinkOk == \E p \in Callers : AttachStepUnlinkOk(p, AttachInputs)

SpecUnlinkOk == InitAttach /\ [][NextUnlinkOk]_vars

\* add_media_attachment calls that upload the same bytes under two names and
\* MIME types
NextUpload == \E p \in Callers : AttachStep(p, UploadInputs)

SpecUpload == InitAttach /\ [][NextUpload]_vars

\* ----------------------------------------------------------------- queries
ComplaintPublicWithContact(c) ==
    [tracking_id |-> c.tracking_id, title |-> c.title, category |-> c.category,
     status |-> c.status, created_at |-> c.created_at,
     updated_at |-> c.updated_at, contact_email |-> c.contact_email]

\* ComplaintPublic(...): the six fields the readers copy out of a row
ComplaintPublic(c) ==
    [tracking_id |-> c.tracking_id, title |-> c.title, category |-> c.category,
     status |-> c.status, created_at |-> c.created_at,
     updated_at |-> c.updated_at]

Found(c) == [kind |-> "found", complaint |-> c]

Listed(rows) == [kind |-> "list", complaints |-> rows]

\* None where a character sequence is expected
NoneStr == <<None>>

\* ORDER BY leaves rows with equal keys in the engine's order: the order of
\* insertion, or its reverse
TieOrders == {"insertion", "reverse"}

ComesBefore(rows, ties, i, j) ==
    \/ rows[i].created_at > rows[j].created_at
    \/ /\ rows[i].created_at = rows[j].created_at
       /\ IF ties = "insertion" THEN i < j ELSE i > j

\* order_by(desc(Complaint.created_at))
OrderByCreatedAtDesc(rows, ties) ==
    LET rank == [i \in DOMAIN rows |->
                    Cardinality({ j \in DOMAIN rows :
                                    ComesBefore(rows, ties, j, i) }) + 1]
    IN  [k \in DOMAIN rows |->
            rows[CHOOSE i \in DOMAIN rows : rank[i] = k]]

\* .limit(n)
Limit(rows, n) == Prefix(rows, n)

Publics(rows) == [k \in DOMAIN rows |-> ComplaintPublic(rows[k])]
GetComplaintByTrackingIdAnyCase(store, tracking_id) ==
    LET hits == SelectSeq(store,
                    LAMBDA c : Upper(c.tracking_id) = Upper(tracking_id))
    IN  IF hits = <<>> THEN Absent ELSE Found(ComplaintPublic(hits[1]))

\* get_complaint_by_tracking_id on the table `store`
GetComplaintByTrackingId(store, tracking_id) ==
    LET hits == SelectSeq(store, LAMBDA c : c.tracking_id = tracking_id)
    IN  IF hits = <<>> THEN Absent ELSE Found(ComplaintPublic(hits[1]))

\* get_all_complaints on the table `store`
GetAllComplaints(store, ties, limit) ==
    Listed(Publics(Limit(OrderByCreatedAtDesc(store, ties), limit)))

\* SQL LIKE: % stands for any run of characters, _ for any one character
RECURSIVE Like(_, _)
Like(text, pattern) ==
    IF pattern = <<>> THEN text = <<>>
    ELSE IF Head(pattern) = "%"
    THEN \/ Like(text, Tail(pattern))
         \/ text # <<>> /\ Like(Tail(text), pattern)
    ELSE /\ text # <<>>
         /\ Head(pattern) = "_" \/ Head(pattern) = Head(text)
         /\ Like(Tail(text), Tail(pattern))

\* `if tracking_id:` is false for None and for the empty string
TrackingIdGiven(tracking_id) == tracking_id # NoneStr /\ tracking_id # <<>>
SearchComplaintsAnyCategory(store, ties, category, status, tracking_id) ==
    LET byStatus ==
            IF status # None
            THEN SelectSeq(store, LAMBDA c : c.status = status)
            ELSE store
        byTrackingId ==
            IF TrackingIdGiven(tracking_id)
            THEN SelectSeq(byStatus,
                     LAMBDA c : Like(Upper(c.tracking_id),
                                     <<"%">> \o Upper(tracking_id) \o <<"%">>))
            ELSE byStatus
    IN  Listed(Publics(Limit(OrderByCreatedAtDesc(byTrackingId, ties),
                             SEARCH_LIMIT)))
SearchComplaintsFirstFilterOnly(store, ties, category, status, tracking_id) ==
    LET rows ==
            IF category # None
            THEN SelectSeq(store, LAMBDA c : c.category = category)
            ELSE IF status # None
            THEN SelectSeq(store, LAMBDA c : c.status = status)
            ELSE IF TrackingIdGiven(tracking_id)
            THEN SelectSeq(store,
                     LAMBDA c : Like(Upper(c.tracking_id),
                                     <<"%">> \o Upper(tracking_id) \o <<"%">>))
            ELSE store
    IN  Listed(Publics(Limit(OrderByCreatedAtDesc(rows, ties), SEARCH_LIMIT)))
SearchComplaintsLimitFirst(store, ties, category, status, tracking_id) ==
    LET byCategory ==
            IF category # None
            THEN SelectSeq(store, LAMBDA c : c.category = category)
            ELSE store
        byStatus ==
            IF status # None
            THEN SelectSeq(byCategory, LAMBDA c : c.status = status)
            ELSE byCategory
        byTrackingId ==
            IF TrackingIdGiven(tracking_id)
            THEN SelectSeq(byStatus,
                     LAMBDA c : Like(Upper(c.tracking_id),
                                     <<"%">> \o Upper(tracking_id) \o <<"%">>))
            ELSE byStatus
    IN  Listed(Publics(OrderByCreatedAtDesc(Limit(byTrackingId, SEARCH_LIMIT),
                                            ties)))

\* search_complaints on the table `store`
SearchComplaints(store, ties, category, status, tracking_id) ==
    LET byCategory ==
            IF category # None
            THEN SelectSeq(store, LAMBDA c : c.category = category)
            ELSE store
        byStatus ==
            IF status # None
            THEN SelectSeq(byCategory, LAMBDA c : c.status = status)
            ELSE byCategory
        byTrackingId ==
            IF TrackingIdGiven(tracking_id)
            THEN SelectSeq(byStatus,
                     LAMBDA c : Like(Upper(c.tracking_id),
                                     <<"%">> \o Upper(tracking_id) \o <<"%">>))
            ELSE byStatus
    IN  Listed(Publics(Limit(OrderByCreatedAtDesc(byTrackingId, ties),
                             SEARCH_LIMIT)))

Categories == { ComplaintCategory[i] : i \in DOMAIN ComplaintCategory }
GetComplaintStatisticsGrouped(store) ==
    [kind |-> "statistics",
     total_complaints |-> Len(store),
     pending_complaints |->
         Len(SelectSeq(store, LAMBDA c : c.status = PENDING)),
     resolved_complaints |->
         Len(SelectSeq(store, LAMBDA c : c.status = RESOLVED)),
     categories |->
         [x \in { store[i].category : i \in DOMAIN store } |->
             Len(SelectSeq(store, LAMBDA c : c.category = x))]]

\* get_complaint_statistics on the table `store`
GetComplaintStatistics(store) ==
    [kind |-> "statistics",
     total_complaints |-> Len(store),
     pending_complaints |->
         Len(SelectSeq(store, LAMBDA c : c.status = PENDING)),
     resolved_complaints |->
         Len(SelectSeq(store, LAMBDA c : c.status = RESOLVED)),
     categories |->
         [x \in Categories |->
             Len(SelectSeq(store, LAMBDA c : c.category = x))]]

\* the (draft, status, created_at) of a stored row: statuses other than
\* pending are set by administrators
RowChoices == Drafts \X {PENDING, RESOLVED} \X {0, 1}

\* the i-th row of a table
StoredRow(i, d, status, t) ==
    [NewComplaint(d, IF d.incident_date = None THEN "127.0.0.1" ELSE None,
                  GenerateTrackingId(Uuid4HexOf(i - 1, 0)), t, t)
        EXCEPT !.id = i, !.status = status]

SmallStores ==
    UNION { { [i \in 1..n |-> StoredRow(i, f[i][1], f[i][2], f[i][3])] :
                f \in [1..n -> RowChoices] } : n \in 0..MaxStoreRows }

\* a table of n rows, created two per clock reading: a resolved harassment
\* complaint, then misconduct complaints, the first under review and the
\* others pending
LargeStore(n) ==
    [i \in 1..n |->
        StoredRow(i, CHOOSE d \in Drafts :
                        d.category = IF i = 1 THEN "harassment" ELSE "misconduct",
                  IF i = 1 THEN RESOLVED
                  ELSE IF i = 2 THEN "under_review" ELSE PENDING,
                  i \div 2)]

\* tables around the search limit
LargeStores == { LargeStore(SEARCH_LIMIT + 1), LargeStore(SEARCH_LIMIT + 2) }

QueryStores == SmallStores \cup LargeStores

\* the codes callers look up: stored codes, a stored code in lower case, a
\* code no complaint has
LookupInputs ==
    { GenerateTrackingId(Uuid4HexOf(0, 0)),
      GenerateTrackingId(Uuid4HexOf(1, 0)),
      <<"P","C","-">> \o Prefix(Uuid4HexOf(0, 0), 8),
      <<"P","C","-","N","O","T","F","O","U","N","D">> }

LimitInputs == {0, 1, MaxStoreRows, SEARCH_LIMIT, DEFAULT_LIMIT}

\* the tracking_id filters callers pass
TrackingIdFilters ==
    { NoneStr, <<>>,
      Prefix(GenerateTrackingId(Uuid4HexOf(0, 0)), 6),
      <<"p","c","-">>,
      SubSeq(GenerateTrackingId(Uuid4HexOf(1, 0)), 5, 7),
      <<"e","5","c">>,
      <<"Z","Z">>,
      <<"_">>,
      <<"C","%","8">> }

CategoryFilters == {None} \cup Categories

StatusFilters == {None, PENDING, RESOLVED}

QueryCall(op) ==
    [op |-> op, tracking_id |-> NoneStr, limit |-> 0, ties |-> "insertion",
     category |-> None, status |-> None]

\* a reader returns r to the call c and leaves the tables as they are
Answer(p, c, r) ==
    /\ pc' = [pc EXCEPT ![p] = "done"]
    /\ call' = [call EXCEPT ![p] = c]
    /\ ret' = [ret EXCEPT ![p] = r]
    /\ UNCHANGED <<complaints, attachments, files, dirs, now>>
    /\ UNCHANGED ui

LookupCall(p, tracking_id) ==
    /\ pc[p] = "idle"
    /\ Answer(p, [QueryCall("lookup") EXCEPT !.tracking_id = tracking_id],
           GetComplaintByTrackingId(complaints, tracking_id))

ListCall(p, ties, limit) ==
    /\ pc[p] = "idle"
    /\ Answer(p, [QueryCall("list") EXCEPT !.ties = ties, !.limit = limit],
           GetAllComplaints(complaints, ties, limit))

SearchCall(p, ties, category, status, tracking_id) ==
    /\ pc[p] = "idle"
    /\ Answer(p, [QueryCall("search") EXCEPT !.ties = ties, !.category = category,
                   !.status = status, !.tracking_id = tracking_id],
           SearchComplaints(complaints, ties, category, status, tracking_id))

StatisticsCall(p) ==
    /\ pc[p] = "idle"
    /\ Answer(p, QueryCall("statistics"), GetComplaintStatistics(complaints))

QueryStep(p) ==
    \/ \E t \in LookupInputs : LookupCall(p, t)
    \/ \E o \in TieOrders, n \in LimitInputs : ListCall(p, o, n)
    \/ \E o \in TieOrders, x \in CategoryFilters, s \in StatusFilters,
          t \in TrackingIdFilters : SearchCall(p, o, x, s, t)
    \/ StatisticsCall(p)

InitQuery ==
    /\ complaints \in QueryStores
    /\ attachments = <<>>
    /\ files = {}
    /\ dirs = {}
    /\ now = 0
    /\ pc = [p \in Procs |-> "idle"]
    /\ call = [p \in Procs |-> NoCall]
    /\ ret = [p \in Procs |-> NoRet]
    /\ ui = NoForm

\* one reader call on a table; the readers change no table, so a second call
\* would find the same table
NextQuery == \E p \in Callers : QueryStep(p)

SpecQuery == InitQuery /\ [][NextQuery]_vars

\* ------------------------------ get_complaint_statistics, query by query

\* what the queries of one session see of other sessions' commits: each
\* statement sees the rows committed when it runs, or every statement sees
\* the rows committed when the session's first statement ran
IsolationLevels == {"read_committed", "snapshot"}

\* the table a query of caller p's session reads
VisibleTable(p) ==
    IF call[p].isolation = "snapshot" THEN call[p].snapshot ELSE complaints

\* line 209: with get_session() as session
StatsStart(p) ==
    /\ pc[p] = "idle"
    /\ \E level \in IsolationLevels :
          call' = [call EXCEPT ![p] =
                      [op |-> "statistics", isolation |-> level,
                       snapshot |-> <<>>, total_complaints |-> 0,
                       pending_complaints |-> 0, resolved_complaints |-> 0,
                       counts |-> <<>>]]
    /\ pc' = [pc EXCEPT ![p] = "st_total"]
    /\ ret' = [ret EXCEPT ![p] = NoRet]
    /\ UNCHANGED <<complaints, attachments, files, dirs, now>>
    /\ UNCHANGED ui

\* line 210: the session's first statement, len(select(Complaint).all())
StatsTotal(p) ==
    /\ pc[p] = "st_total"
    /\ call' = [call EXCEPT ![p].snapshot = complaints,
                            ![p].total_complaints = Len(complaints)]
    /\ pc' = [pc EXCEPT ![p] = "st_pending"]
    /\ UNCHANGED <<complaints, attachments, files, dirs, now, ret>>
    /\ UNCHANGED ui

\* lines 211-213: the count of rows with status PENDING
StatsPending(p) ==
    /\ pc[p] = "st_pending"
    /\ call' = [call EXCEPT ![p].pending_complaints =
                   Len(SelectSeq(VisibleTable(p), LAMBDA c : c.status = PENDING))]
    /\ pc' = [pc EXCEPT ![p] = "st_resolved"]
    /\ UNCHANGED <<complaints, attachments, files, dirs, now, ret>>
    /\ UNCHANGED ui

\* lines 214-216: the count of rows with status RESOLVED
StatsResolved(p) ==
    /\ pc[p] = "st_resolved"
    /\ call' = [call EXCEPT ![p].resolved_complaints =
                   Len(SelectSeq(VisibleTable(p), LAMBDA c : c.status = RESOLVED))]
    /\ pc' = [pc EXCEPT ![p] = "st_category"]
    /\ UNCHANGED <<complaints, attachments, files, dirs, now, ret>>
    /\ UNCHANGED ui

\* the dict returned at lines 224-229
StatisticsOf(c) ==
    [kind |-> "statistics",
     total_complaints |-> c.total_complaints,
     pending_complaints |-> c.pending_complaints,
     resolved_complaints |-> c.resolved_complaints,
     categories |->
         [x \in Categories |->
             c.counts[CHOOSE k \in DOMAIN ComplaintCategory : ComplaintCategory[k] = x]]]

\* lines 220-222: one iteration of the loop over the categories; after the
\* last one, lines 224-229 return the dict
StatsCategory(p) ==
    /\ pc[p] = "st_category"
    /\ LET category == ComplaintCategory[Len(call[p].counts) + 1]
           count == Len(SelectSeq(VisibleTable(p),
                                  LAMBDA c : c.category = category))
           counts == Append(call[p].counts, count)
       IN  /\ call' = [call EXCEPT ![p].counts = counts]
           /\ IF Len(counts) = Len(ComplaintCategory)
              THEN /\ ret' = [ret EXCEPT ![p] =
                                 StatisticsOf([call[p] EXCEPT !.counts = counts])]
                   /\ pc' = [pc EXCEPT ![p] = "done"]
              ELSE UNCHANGED <<pc, ret>>
    /\ UNCHANGED <<complaints, attachments, files, dirs, now>>
    /\ UNCHANGED ui

StatsStep(p) ==
    \/ StatsStart(p)
    \/ StatsTotal(p)
    \/ StatsPending(p)
    \/ StatsResolved(p)
    \/ StatsCategory(p)

\* one caller creates complaints while another reads the statistics
NextStats ==
    \/ CreateStep("p1", ConcurrentInputs)
    \/ StatsStep("p2")

SpecStats == Init /\ [][NextStats]_vars

\* -------------------------------------------------- the complaint form page
\* src/app/complaint_form.py; the page's handlers run for caller "p1"
FormCaller == "p1"

Whitespace == {" ", "\t", "\n"}

RECURSIVE LStrip(_)
LStrip(s) ==
    IF s = <<>> THEN s
    ELSE IF Head(s) \in Whitespace THEN LStrip(Tail(s)) ELSE s

RECURSIVE RStrip(_)
RStrip(s) ==
    IF s = <<>> THEN s
    ELSE IF s[Len(s)] \in Whitespace
         THEN RStrip(SubSeq(s, 1, Len(s) - 1)) ELSE s

StripNothing(s) == s

\* str.strip()
Strip(s) == RStrip(LStrip(s))

\* line 236: not title_input.value or len(title_input.value.strip()) < 5
TitleTooShort(value) == value = <<>> \/ Len(Strip(value)) < 5

\* line 240: the same test on the description, with 10
DescriptionTooShort(value) == value = <<>> \/ Len(Strip(value)) < 10

\* models.py lines 145-146: the length constraints of ComplaintCreate
ComplaintCreateValid(data) ==
    /\ Len(data.title) >= 5 /\ Len(data.title) <= 200
    /\ Len(data.description) >= 10 /\ Len(data.description) <= 5000

\* lines 255-266: the ComplaintCreate built from the fields; the optional
\* fields are left empty, the two selects at a fixed choice
FormData(u) ==
    [title |-> Strip(u.title), description |-> Strip(u.description),
     category |-> "other", urgency |-> "medium",
     incident_date |-> None, incident_location |-> None,
     officer_badge_number |-> None, officer_name |-> None,
     contact_email |-> None, contact_phone |-> None]

\* what the submitter may have typed as title and description
FormTitles ==
    { <<>>,
      <<" ", "a", "b", "c", "d", " ">>,
      <<"S", "h", "o", "r", "t">>,
      [k \in 1..201 |-> "x"] }

FormDescriptions ==
    { <<" ", "1", "2", "3", "4", "5", "6", "7", "8", "9", " ", " ">>,
      <<"A", " ", "b", "i", "t", " ", "l", "o", "n", "g", "e", "r">> }

\* the files the submitter may choose in the upload widget
FormUploads ==
    { <<"clip.mp4", SmallContent, VideoMp4>>,
      <<"test.exe", SmallContent, ApplicationXExecutable>>,
      <<"test_image.jpg", EmptyContent, ImageJpeg>> }

Notified(u, message) == [u EXCEPT !.notifications = @ \cup {message}]

\* the page is opened with the title and the description typed in
InitForm ==
    /\ complaints = <<>>
    /\ attachments = <<>>
    /\ files = {}
    /\ dirs = {}
    /\ now = 0
    /\ pc = [p \in Procs |-> "idle"]
    /\ call = [p \in Procs |-> NoCall]
    /\ ret = [p \in Procs |-> NoRet]
    /\ \E title \in FormTitles, description \in FormDescriptions :
          ui = [NoForm EXCEPT !.title = title, !.description = description]

\* lines 189-225: handle_upload keeps a non-empty file of at most 50 MB
HandleUpload(name, content, type) ==
    /\ ui.stage = "form"
    /\ Len(ui.uploaded_files) < MaxFiles
    /\ ui' = IF content.len = 0
             THEN Notified(ui, "Empty file uploaded")
             ELSE IF content.len > 50 * 1024 * 1024
             THEN Notified(ui, "File too large")
             ELSE [Notified(ui, "ready for upload") EXCEPT
                      !.uploaded_files = Append(@, <<name, content, type>>)]
    /\ UNCHANGED <<complaints, attachments, files, dirs, now, pc, call, ret>>

\* lines 236-242: submit_complaint returns early on a short title or a
\* short description
SubmitRejected ==
    /\ ui.stage = "form"
    /\ TitleTooShort(ui.title) \/ DescriptionTooShort(ui.description)
    /\ ui' = IF TitleTooShort(ui.title)
             THEN Notified(ui, "Please provide a complaint title")
             ELSE Notified(ui, "Please provide a detailed description")
    /\ UNCHANGED <<complaints, attachments, files, dirs, now, pc, call, ret>>

\* lines 255-266, 294-298: ComplaintCreate raises a validation error, which
\* the outer handler reports
SubmitInvalid ==
    /\ ui.stage = "form"
    /\ ~TitleTooShort(ui.title) /\ ~DescriptionTooShort(ui.description)
    /\ ~ComplaintCreateValid(FormData(ui))
    /\ ui' = Notified(ui, "An error occurred")
    /\ UNCHANGED <<complaints, attachments, files, dirs, now, pc, call, ret>>

\* lines 255-272: the fields pass; create_complaint(complaint_data, None)
\* is called
SubmitCreate ==
    /\ ui.stage = "form"
    /\ ~TitleTooShort(ui.title) /\ ~DescriptionTooShort(ui.description)
    /\ ComplaintCreateValid(FormData(ui))
    /\ BeginCreate(FormCaller, FormData(ui), None)
    /\ ui' = [ui EXCEPT !.stage = "creating"]

\* lines 272, 294-298: create_complaint raised; the outer handler reports it
\* and submit_complaint is over (a behaviour follows one submission)
SubmitCreateFailed ==
    /\ ui.stage = "creating"
    /\ pc[FormCaller] = "done"
    /\ ret[FormCaller].kind = "raised"
    /\ ui' = [Notified(ui, "An error occurred") EXCEPT !.stage = "failed"]
    /\ UNCHANGED <<complaints, attachments, files, dirs, now, pc, call, ret>>

\* lines 272-279: create_complaint returned (complaint, tracking_id)
SubmitCreated ==
    /\ ui.stage = "creating"
    /\ pc[FormCaller] = "done"
    /\ ret[FormCaller].kind = "created"
    /\ ui' = IF ret[FormCaller].complaint.id = NoId
             THEN [Notified(ui, "Failed to create complaint") EXCEPT
                      !.stage = "failed"]
             ELSE [ui EXCEPT !.stage = "uploading", !.next_file = 1,
                      !.complaint_id = ret[FormCaller].complaint.id,
                      !.tracking_id = ret[FormCaller].tracking_id]
    /\ UNCHANGED <<complaints, attachments, files, dirs, now, pc, call, ret>>

\* lines 279-283: the loop calls add_media_attachment for the next file
SubmitAttach ==
    /\ ui.stage = "uploading"
    /\ ui.next_file <= Len(ui.uploaded_files)
    /\ LET file_info == ui.uploaded_files[ui.next_file]
       IN  BeginAttach(FormCaller, ui.complaint_id,
                       file_info[1], file_info[2], file_info[3])
    /\ ui' = [ui EXCEPT !.stage = "attaching"]

\* lines 280-286: the call returned, or raised and the handler warns; the
\* loop goes on to the next file either way
SubmitAttached ==
    /\ ui.stage = "attaching"
    /\ pc[FormCaller] = "done"
    /\ LET u == [ui EXCEPT !.stage = "uploading", !.next_file = @ + 1,
                           !.outcomes = Append(@, ret[FormCaller].kind)]
       IN  ui' = IF ret[FormCaller].kind = "raised"
                 THEN Notified(u, "Warning: Failed to upload")
                 ELSE u
    /\ UNCHANGED <<complaints, attachments, files, dirs, now, pc, call, ret>>

\* lines 289-292: the tracking id is stored for the tab, the success page
\* is shown
SubmitFinish ==
    /\ ui.stage = "uploading"
    /\ ui.next_file > Len(ui.uploaded_files)
    /\ ui' = [ui EXCEPT !.stage = "finished",
                        !.submitted_tracking_id = ui.tracking_id,
                        !.page = "/success"]
    /\ UNCHANGED <<complaints, attachments, files, dirs, now, pc, call, ret>>

\* the page's handlers, and the steps of the service calls they make
FormStep ==
    \/ \E f \in FormUploads : HandleUpload(f[1], f[2], f[3])
    \/ SubmitRejected
    \/ SubmitInvalid
    \/ SubmitCreate
    \/ SubmitCreateFailed
    \/ SubmitCreated
    \/ SubmitAttach
    \/ SubmitAttached
    \/ SubmitFinish

ServiceStep(p) ==
    \/ CreateCheck(p)
    \/ CreateCommit(p)
    \/ CreateRefresh(p)
    \/ AttachSave(p)
    \/ AttachCommit(p)
    \/ AttachRefresh(p)
    \/ AttachCleanup(p)
    \/ AttachCleanupFails(p)

NextForm == FormStep \/ ServiceStep(FormCaller)

SpecForm == InitForm /\ [][NextForm]_vars

\* --------------------------------------- the form, then the reading pages
\* the store already holds a complaint when the form page is opened
InitPortal ==
    /\ complaints = <<StoredComplaint>>
    /\ attachments = <<>>
    /\ files = {}
    /\ dirs = {}
    /\ now = 0
    /\ pc = [p \in Procs |-> "idle"]
    /\ call = [p \in Procs |-> NoCall]
    /\ ret = [p \in Procs |-> NoRet]
    /\ \E title \in FormTitles, description \in FormDescriptions :
          ui = [NoForm EXCEPT !.title = title, !.description = description]

\* complaint_tracking.py: from the success page the tab goes on to /track
\* or /admin, whose handlers read the store
OpenTracking ==
    /\ ui.stage = "finished"
    /\ pc[FormCaller] = "done"
    /\ ui' = [ui EXCEPT !.stage = "reading", !.page = "/track"]
    /\ pc' = [pc EXCEPT ![FormCaller] = "idle"]
    /\ UNCHANGED <<complaints, attachments, files, dirs, now, call, ret>>

\* one reader call: a lookup, a listing, a search or the statistics
ReaderStep(p) ==
    \/ \E t \in { GenerateTrackingId(u) : u \in Uuid4Hex } : LookupCall(p, t)
    \/ ListCall(p, "insertion", DEFAULT_LIMIT)
    \/ SearchCall(p, "insertion", None, PENDING, NoneStr)
    \/ StatisticsCall(p)

NextPortal ==
    \/ FormStep
    \/ ServiceStep(FormCaller)
    \/ OpenTracking
    \/ ReaderStep(FormCaller)

SpecPortal == InitPortal /\ [][NextPortal]_vars

\* ================================================================== claims
UpperHexChars ==
    {"0","1","2","3","4","5","6","7","8","9","A","B","C","D","E","F"}

StoredTrackingIds == { complaints[i].tracking_id : i \in DOMAIN complaints }

\* C1: under sequential creation the retry loop alone keeps tracking codes
\* distinct: all stored complaints have pairwise distinct tracking codes and
\* no create_complaint call is refused by the store's uniqueness constraint,
\* also when the generator first yielded a code a stored complaint holds.
C1_SequentialCodesDistinct ==
    /\ \A i \in DOMAIN complaints : \A j \in DOMAIN complaints :
          i # j => complaints[i].tracking_id # complaints[j].tracking_id
    /\ \A p \in Procs :
          ret[p].kind = "raised" => ret[p].exc # "IntegrityError"

\* a call whose first code was taken has stored a second complaint
C1_Witness ==
    \E p \in Procs :
       /\ pc[p] = "done" /\ call[p].op = "create" /\ call[p].retried
       /\ ret[p].kind = "created"
       /\ Len(complaints) = 2

\* C2: under every interleaving of concurrent create_complaint calls no two
\* stored complaints hold the same tracking code.
C2_ConcurrentCodesDistinct ==
    Cardinality(StoredTrackingIds) = Len(complaints)

\* two calls raced on one code: one is stored, the other was refused
C2_Witness ==
    \E p \in Procs, q \in Procs :
       /\ p # q
       /\ ret[p].kind = "raised" /\ ret[p].exc = "IntegrityError"
       /\ ret[q].kind = "created"
       /\ call[p].tracking_id = ret[q].tracking_id

IsTrackingCode(t) ==
    /\ Len(t) = 11
    /\ t[1] = "P" /\ t[2] = "C" /\ t[3] = "-"
    /\ \A i \in 4..11 : t[i] \in UpperHexChars

\* C3: every generated tracking code, and so the code of every stored
\* complaint, is "PC-" followed by exactly 8 characters of 0-9, A-F.
C3_TrackingCodeFormat ==
    /\ \A p \in Procs : call[p].op = "create" => IsTrackingCode(call[p].tracking_id)
    /\ \A i \in DOMAIN complaints : IsTrackingCode(complaints[i].tracking_id)

\* a stored code holding a letter the generator had to upper-case
C3_Witness ==
    \E i \in DOMAIN complaints :
       \E k \in 4..11 : complaints[i].tracking_id[k] \in {"A","B","C","D","E","F"}

\* C4 (as claimed): every stored complaint is PENDING and its created_at
\* equals its updated_at.
C4_PendingAndOneTimestamp ==
    \A i \in DOMAIN complaints :
       /\ complaints[i].status = "pending"
       /\ complaints[i].created_at = complaints[i].updated_at

\* C5: a returned (complaint, code) has a store-assigned id, carries code
\* as its tracking_id, copies every draft field and has submitted_ip equal
\* to client_ip (absent when not given).
C5_CreateReturnsDraft ==
    \A p \in Procs :
       (pc[p] = "done" /\ ret[p].kind = "created") =>
          LET c == ret[p].complaint
              d == call[p].data
          IN /\ c.id \in 1..Len(complaints)
             /\ complaints[c.id] = c
             /\ c.tracking_id = ret[p].tracking_id
             /\ c.title = d.title /\ c.description = d.description
             /\ c.category = d.category /\ c.urgency = d.urgency
             /\ c.incident_date = d.incident_date
             /\ c.incident_location = d.incident_location
             /\ c.officer_name = d.officer_name
             /\ c.officer_badge_number = d.officer_badge_number
             /\ c.contact_email = d.contact_email
             /\ c.contact_phone = d.contact_phone
             /\ c.submitted_ip = call[p].ip

\* a draft with a client address was created and returned
C5_Witness ==
    \E p \in Procs :
       /\ pc[p] = "done" /\ ret[p].kind = "created"
       /\ call[p].ip = "127.0.0.1"
       /\ ret[p].complaint.id = 2

\* the acceptance condition of C6, written out
Acceptable(a) ==
    /\ 1 <= a.content.len
    /\ a.content.len <= 50 * 1024 * 1024
    /\ a.mime_type \in ALLOWED_MIME_TYPES
    /\ \E i \in DOMAIN complaints : complaints[i].id = a.complaint_id

\* C6: a call that did not fail on storage returns an attachment iff the
\* content has 1..50*1024*1024 bytes, the MIME type is one of the 12
\* allow-listed ones and the complaint exists; otherwise it returns absent.
C6_AttachmentIffAcceptable ==
    /\ Cardinality(ALLOWED_MIME_TYPES) = 12
    /\ \A p \in Procs :
          (pc[p] = "done" /\ call[p].op = "attach" /\ ret[p].kind # "raised") =>
             /\ ret[p].kind = "attachment" <=> Acceptable(call[p])
             /\ ret[p].kind = "absent" <=> ~Acceptable(call[p])

\* content of exactly 50*1024*1024 bytes was accepted
C6_Witness ==
    \E p \in Procs :
       /\ pc[p] = "done" /\ ret[p].kind = "attachment"
       /\ call[p].content.len = 50 * 1024 * 1024

\* the step with which caller p begins a call
Begins(p) ==
    /\ pc[p] \in {"idle", "done"}
    /\ <<pc[p], call[p], ret[p]>> # <<pc'[p], call'[p], ret'[p]>>

\* C7: a rejected add_media_attachment call returns absent without raising
\* and leaves the store and the upload directory as they were.
C7_RejectionChangesNothing ==
    [][\A p \in Procs :
          (Begins(p) /\ call'[p].op = "attach" /\ ~Acceptable(call'[p])) =>
             /\ pc'[p] = "done"
             /\ ret'[p] = [kind |-> "absent"]
             /\ UNCHANGED <<complaints, attachments, files, dirs>>]_vars

\* a call on a missing complaint was rejected while a file and a row exist
C7_Witness ==
    \E p \in Procs :
       /\ pc[p] = "done" /\ call[p].op = "attach" /\ ret[p].kind = "absent"
       /\ call[p].content.len = 18
       /\ call[p].mime_type \in ALLOWED_MIME_TYPES
       /\ call[p].complaint_id \notin ComplaintIds
       /\ files # {} /\ attachments # <<>>

\* C8: a returned attachment records len(content), the supplied filename,
\* the declared MIME type and the supplied complaint id, is processed, and
\* the file at its file_path holds exactly the supplied content.
C8_AttachmentRecordsUpload ==
    \A p \in Procs :
       (pc[p] = "done" /\ ret[p].kind = "attachment") =>
          LET a == ret[p].attachment IN
          /\ a.file_size = call[p].content.len
          /\ a.original_filename = call[p].filename
          /\ a.mime_type = call[p].mime_type
          /\ a.complaint_id = call[p].complaint_id
          /\ a.is_processed = TRUE
          /\ \E f \in files :
                f.path = a.file_path /\ f.content = call[p].content

\* the upload of the test was returned
C8_Witness ==
    \E p \in Procs :
       /\ pc[p] = "done" /\ ret[p].kind = "attachment"
       /\ call[p].filename = "test_image.jpg"
       /\ call[p].content.bytes = "fake image content"

\* C9: when the commit of the attachment row fails after the file was
\* written, the call raises that failure, no row is added, and the file
\* is gone whenever the unlink succeeded.
C9_InsertFailureCleansUp ==
    [][\A p \in Procs :
          /\ (pc[p] = "insert" /\ pc'[p] = "cleanup") =>
                /\ attachments' = attachments
                /\ \E f \in files : f.path = call[p].file_path
          /\ (pc[p] = "cleanup" /\ call[p].attachment.id = NoId
                /\ pc'[p] = "done") =>
                /\ ret'[p] = [kind |-> "raised", exc |-> call[p].exc]
                /\ attachments' = attachments
                /\ call'[p].unlink_error = None =>
                      ~\E f \in files' : f.path = call[p].file_path]_vars

\* the commit failed, the unlink succeeded and the file is gone
C9_Witness ==
    \E p \in Procs :
       /\ pc[p] = "done" /\ call[p].op = "attach" /\ ret[p].kind = "raised"
       /\ call[p].exc = "OperationalError"
       /\ call[p].attachment.id = NoId
       /\ call[p].unlink_error = None
       /\ ~\E f \in files : f.path = call[p].file_path

\* C10: when the commit fails and the unlink fails too, the caller gets
\* the commit's failure, never the unlink's.
C10_OriginalFailureSurfaces ==
    \A p \in Procs :
       (pc[p] = "done" /\ call[p].op = "attach" /\ call[p].exc # None
          /\ call[p].attachment.id = NoId /\ call[p].unlink_error # None) =>
             /\ ret[p].kind = "raised"
             /\ ret[p].exc = call[p].exc
             /\ ret[p].exc # call[p].unlink_error

\* the commit and the unlink both failed
C10_Witness ==
    \E p \in Procs :
       /\ pc[p] = "done" /\ call[p].op = "attach"
       /\ call[p].exc = "OperationalError"
       /\ call[p].attachment.id = NoId
       /\ call[p].unlink_error = "PermissionError"
       /\ \E f \in files : f.path = call[p].file_path

\* C11: get_complaint_by_tracking_id(code) returns a summary exactly when
\* some stored complaint's tracking code equals code character for character
\* (case matters); the summary then carries that code and the title,
\* category, status and timestamps of that complaint; otherwise the call
\* returns the absent value.
C11_LookupExactMatch ==
    \A p \in Callers :
        (pc[p] = "done" /\ call[p].op = "lookup") =>
            LET code == call[p].tracking_id
                hits == { i \in DOMAIN complaints :
                            complaints[i].tracking_id = code }
            IN  IF hits = {}
                THEN ret[p] = Absent
                ELSE /\ ret[p].kind = "found"
                     /\ ret[p].complaint.tracking_id = code
                     /\ \E i \in hits :
                          /\ ret[p].complaint.title = complaints[i].title
                          /\ ret[p].complaint.category = complaints[i].category
                          /\ ret[p].complaint.status = complaints[i].status
                          /\ ret[p].complaint.created_at = complaints[i].created_at
                          /\ ret[p].complaint.updated_at = complaints[i].updated_at

\* the second of two stored complaints is looked up and found
C11_Witness ==
    \E p \in Callers :
        /\ pc[p] = "done" /\ call[p].op = "lookup"
        /\ Len(complaints) = 2
        /\ complaints[1].title # complaints[2].title
        /\ call[p].tracking_id = complaints[2].tracking_id
        /\ ret[p].kind = "found"
        /\ ret[p].complaint.title = complaints[2].title

\* the table with every private field of every row replaced by those of d
WithPrivateFieldsOf(store, d, ip) ==
    [i \in DOMAIN store |->
        [store[i] EXCEPT !.description = d.description,
                         !.contact_email = d.contact_email,
                         !.contact_phone = d.contact_phone,
                         !.officer_name = d.officer_name,
                         !.officer_badge_number = d.officer_badge_number,
                         !.incident_date = d.incident_date,
                         !.incident_location = d.incident_location,
                         !.submitted_ip = ip]]

\* tables that differ from the stored one in private fields only
PrivateVariants ==
    { WithPrivateFieldsOf(complaints, d, ip) : d \in Drafts, ip \in ClientIps }

\* the answer the reader call of p gets on the table `store`
AnswerOn(store, p) ==
    CASE call[p].op = "lookup" ->
            GetComplaintByTrackingId(store, call[p].tracking_id)
      [] call[p].op = "list" ->
            GetAllComplaints(store, call[p].ties, call[p].limit)
      [] call[p].op = "search" ->
            SearchComplaints(store, call[p].ties, call[p].category,
                             call[p].status, call[p].tracking_id)
      [] OTHER -> GetComplaintStatistics(store)

\* C12: what get_complaint_by_tracking_id, get_all_complaints and
\* search_complaints return does not depend on the private fields
\* (description, contact email and phone, officer name and badge, incident
\* date and location, submitted_ip): on a table that differs from the stored
\* one in those fields only, the same call returns the same summaries.
C12_SummariesHidePrivateFields ==
    \A p \in Callers :
        (pc[p] = "done" /\ call[p].op \in {"lookup", "list", "search"}) =>
            \A other \in PrivateVariants : ret[p] = AnswerOn(other, p)

\* a search answered with two summaries on a table whose rows hold contact
\* data, while a table without that data exists among the variants
C12_Witness ==
    \E p \in Callers :
        /\ pc[p] = "done" /\ call[p].op = "search"
        /\ ret[p].kind = "list" /\ Len(ret[p].complaints) = 2
        /\ \E i \in DOMAIN complaints : complaints[i].contact_email # None
        /\ \E other \in PrivateVariants :
              /\ other # complaints
              /\ \A i \in DOMAIN other : other[i].contact_email = None

Min(a, b) == IF a < b THEN a ELSE b

\* the summaries are ordered by non-increasing created_at
NewestFirst(r) ==
    \A k \in 1..(Len(r) - 1) : r[k].created_at >= r[k + 1].created_at

\* the summaries are those of distinct rows of `rows`, and no row of `rows`
\* that is left out was created after a row that is returned
MostRecentOf(r, rows) ==
    /\ \A k \in DOMAIN r : \E i \in DOMAIN rows :
          /\ r[k].tracking_id = rows[i].tracking_id
          /\ r[k].title = rows[i].title /\ r[k].category = rows[i].category
          /\ r[k].status = rows[i].status
          /\ r[k].created_at = rows[i].created_at
          /\ r[k].updated_at = rows[i].updated_at
    /\ \A k, l \in DOMAIN r : r[k].tracking_id = r[l].tracking_id => k = l
    /\ \A i \in DOMAIN rows :
          (\A k \in DOMAIN r : r[k].tracking_id # rows[i].tracking_id) =>
              \A k \in DOMAIN r : rows[i].created_at <= r[k].created_at

\* the rows were created one after the other: later rows read the clock later
CreatedInSequence ==
    \A i, j \in DOMAIN complaints :
        i < j => complaints[i].created_at <= complaints[j].created_at

\* C13: for a table of N complaints and a limit L >= 0, get_all_complaints(L)
\* returns exactly min(L, N) summaries, ordered by non-increasing created_at,
\* and they are the min(L, N) most recently created complaints, so that of
\* complaints created in a sequence the one created last comes first.
C13_ListNewestFirst ==
    \A p \in Callers :
        (pc[p] = "done" /\ call[p].op = "list") =>
            LET r == ret[p].complaints
                N == Len(complaints)
            IN  /\ Len(r) = Min(call[p].limit, N)
                /\ NewestFirst(r)
                /\ MostRecentOf(r, complaints)
                /\ (CreatedInSequence /\ N > 0 /\ call[p].limit > 0) =>
                      r[1].tracking_id = complaints[N].tracking_id

\* the rows of the stored table with category x
RowsOfCategory(x) == SelectSeq(complaints, LAMBDA c : c.category = x)

\* C14: when the table holds at most 50 complaints of category X,
\* search_complaints(category=X) returns exactly the complaints of category
\* X, none of another category and none missing, newest-first by created_at;
\* it returns the empty list when no complaint has category X.
C14_SearchByCategory ==
    \A p \in Callers :
        ( /\ pc[p] = "done" /\ call[p].op = "search"
          /\ call[p].category # None /\ call[p].status = None
          /\ call[p].tracking_id = NoneStr
          /\ Len(RowsOfCategory(call[p].category)) <= 50 ) =>
            LET r == ret[p].complaints
                rows == RowsOfCategory(call[p].category)
            IN  /\ Len(r) = Len(rows)
                /\ \A k \in DOMAIN r : r[k].category = call[p].category
                /\ \A i \in DOMAIN rows : \E k \in DOMAIN r :
                      r[k].tracking_id = rows[i].tracking_id
                /\ MostRecentOf(r, rows)
                /\ NewestFirst(r)

\* a category search that returns exactly the 50 complaints of its category
\* and leaves a complaint of another category out
C14_Witness ==
    \E p \in Callers :
        /\ pc[p] = "done" /\ call[p].op = "search"
        /\ call[p].category = "misconduct" /\ call[p].status = None
        /\ call[p].tracking_id = NoneStr
        /\ Len(ret[p].complaints) = 50
        /\ \E i \in DOMAIN complaints : complaints[i].category = "harassment"

\* s occurs in text as a contiguous run of characters
Contains(text, s) ==
    \E i \in 1..(Len(text) - Len(s) + 1) : SubSeq(text, i, i + Len(s) - 1) = s

\* the codes of the stored complaints that search_complaints(tracking_id=s)
\* is to match
CodesContaining(s) ==
    { complaints[i].tracking_id : i \in
        { j \in DOMAIN complaints :
            Contains(Upper(complaints[j].tracking_id), Upper(s)) } }

\* C15: for every non-empty query string s, of any characters and any letter
\* case, search_complaints(tracking_id=s) matches a complaint if and only if
\* the upper-cased s occurs as a contiguous substring of the complaint's
\* upper-cased tracking code; a string that is not a substring of the code
\* never matches.
C15_SearchBySubstring ==
    \A p \in Callers :
        ( /\ pc[p] = "done" /\ call[p].op = "search"
          /\ call[p].category = None /\ call[p].status = None
          /\ call[p].tracking_id # NoneStr /\ call[p].tracking_id # <<>>
          /\ Len(complaints) <= 50 ) =>
            { ret[p].complaints[k].tracking_id : k \in DOMAIN ret[p].complaints }
                = CodesContaining(call[p].tracking_id)

\* the codes a search for the tracking_id filter t alone finds in the stored
\* table
CodesFoundBy(ties, t) ==
    LET r == SearchComplaints(complaints, ties, None, None, t).complaints
    IN  { r[k].tracking_id : k \in DOMAIN r }

\* the row satisfies every filter that was supplied
SatisfiesSupplied(c, ties, category, status, t) ==
    /\ category # None => c.category = category
    /\ status # None => c.status = status
    /\ (t # NoneStr /\ t # <<>>) => c.tracking_id \in CodesFoundBy(ties, t)

\* C16: the filters of search_complaints are conjunctive and optional: a
\* complaint is matched by search_complaints(category=c, status=s,
\* tracking_id=t) if and only if it satisfies every filter that was supplied,
\* an omitted filter imposes no restriction, and search_complaints() with no
\* filter returns the same sequence as get_all_complaints(limit=50).
C16_FiltersConjunctive ==
    \A p \in Callers :
        (pc[p] = "done" /\ call[p].op = "search") =>
            /\ Len(complaints) <= 50 =>
                  { ret[p].complaints[k].tracking_id :
                      k \in DOMAIN ret[p].complaints }
                  = { complaints[i].tracking_id : i \in
                        { j \in DOMAIN complaints :
                            SatisfiesSupplied(complaints[j], call[p].ties,
                                call[p].category, call[p].status,
                                call[p].tracking_id) } }
            /\ ( /\ call[p].category = None /\ call[p].status = None
                 /\ call[p].tracking_id = NoneStr ) =>
                  ret[p] = GetAllComplaints(complaints, call[p].ties, 50)

\* a search with all three filters supplied returns one of two complaints of
\* the category: the other one fails the status filter only
C16_Witness ==
    \E p \in Callers :
        /\ pc[p] = "done" /\ call[p].op = "search"
        /\ call[p].category # None /\ call[p].status # None
        /\ call[p].tracking_id = <<"p", "c", "-">>
        /\ Len(complaints) = 2
        /\ \A i \in DOMAIN complaints : complaints[i].category = call[p].category
        /\ Len(ret[p].complaints) = 1
        /\ \E i \in DOMAIN complaints : complaints[i].status # call[p].status

\* the rows of the stored table the filters of the call of p let through
MatchingRows(p) ==
    SelectSeq(complaints,
        LAMBDA c :
            /\ call[p].category # None => c.category = call[p].category
            /\ call[p].status # None => c.status = call[p].status
            /\ (call[p].tracking_id # NoneStr /\ call[p].tracking_id # <<>>) =>
                  Like(Upper(c.tracking_id),
                       <<"%">> \o Upper(call[p].tracking_id) \o <<"%">>))

\* C17: for every table and every combination of filters search_complaints
\* returns at most 50 summaries; when more than 50 complaints match, the
\* result is 50 matching complaints in newest-first order and no matching
\* complaint that is left out has a later created_at than one returned.
C17_SearchCappedAtFifty ==
    \A p \in Callers :
        (pc[p] = "done" /\ call[p].op = "search") =>
            LET r == ret[p].complaints
            IN  /\ Len(r) <= 50
                /\ Len(MatchingRows(p)) > 50 =>
                      /\ Len(r) = 50
                      /\ MostRecentOf(r, MatchingRows(p))
                      /\ NewestFirst(r)

\* 51 complaints match a category and status search and 50 are returned
C17_Witness ==
    \E p \in Callers :
        /\ pc[p] = "done" /\ call[p].op = "search"
        /\ call[p].category = "misconduct" /\ call[p].status = None
        /\ Len(MatchingRows(p)) = 51
        /\ Len(ret[p].complaints) = 50

\* the number of stored complaints that pass Test
CountOf(Test(_)) == Cardinality({ i \in DOMAIN complaints : Test(complaints[i]) })

\* C18: get_complaint_statistics returns total_complaints equal to the
\* number of stored complaints, pending_complaints equal to the number with
\* status PENDING, resolved_complaints equal to the number with status
\* RESOLVED, and a categories map with an entry for each of the 7 categories,
\* those with count 0 included, equal to the number of complaints of that
\* category.
C18_StatisticsCount ==
    \A p \in Callers :
        (pc[p] = "done" /\ call[p].op = "statistics") =>
            /\ ret[p].total_complaints = Len(complaints)
            /\ ret[p].pending_complaints = CountOf(LAMBDA c : c.status = "pending")
            /\ ret[p].resolved_complaints = CountOf(LAMBDA c : c.status = "resolved")
            /\ DOMAIN ret[p].categories =
                  {"excessive_force", "misconduct", "discrimination",
                   "corruption", "harassment", "abuse_of_power", "other"}
            /\ \A x \in DOMAIN ret[p].categories :
                  ret[p].categories[x] = CountOf(LAMBDA c : c.category = x)

\* statistics of a table with a pending and a resolved complaint of two
\* categories: five categories are reported with count 0
C18_Witness ==
    \E p \in Callers :
        /\ pc[p] = "done" /\ call[p].op = "statistics"
        /\ ret[p].total_complaints = 2
        /\ ret[p].pending_complaints = 1 /\ ret[p].resolved_complaints = 1
        /\ ret[p].categories["misconduct"] = 1
        /\ ret[p].categories["harassment"] = 1
        /\ ret[p].categories["other"] = 0

LowerHexChars ==
    {"0","1","2","3","4","5","6","7","8","9","a","b","c","d","e","f"}

\* the bytes stored for an attachment: the content of the file at its path
ContentOf(a) == (CHOOSE f \in files : f.path = a.file_path).content

\* C19: the content hash is a function of the content bytes only: two
\* attachments accepted with identical content bytes have identical
\* file_hash, whatever their complaint, filename, declared MIME type and
\* upload time and whatever the store held, and every file_hash is 64
\* lowercase hexadecimal characters.
C19_HashOfContentOnly ==
    /\ \A i, j \in DOMAIN attachments :
          ( /\ FileExists(attachments[i].file_path)
            /\ FileExists(attachments[j].file_path)
            /\ ContentOf(attachments[i]) = ContentOf(attachments[j]) ) =>
              attachments[i].file_hash = attachments[j].file_hash
    /\ \A i \in DOMAIN attachments :
          /\ Len(attachments[i].file_hash) = 64
          /\ \A k \in 1..64 : attachments[i].file_hash[k] \in LowerHexChars

\* the same bytes are stored under two filenames and two MIME types, at
\* different paths, and both rows carry one hash
C19_Witness ==
    \E i, j \in DOMAIN attachments :
        /\ attachments[i].original_filename # attachments[j].original_filename
        /\ attachments[i].mime_type # attachments[j].mime_type
        /\ attachments[i].file_path # attachments[j].file_path
        /\ FileExists(attachments[i].file_path)
        /\ FileExists(attachments[j].file_path)
        /\ ContentOf(attachments[i]) = ContentOf(attachments[j])
        /\ attachments[i].file_hash = attachments[j].file_hash

\* s begins with the characters of prefix
BeginsWith(s, prefix) ==
    /\ Len(s) >= Len(prefix)
    /\ \A k \in DOMAIN prefix : s[k] = prefix[k]

\* C20: for every persisted attachment media_type is IMAGE when mime_type
\* starts with 'image/', VIDEO when it starts with 'video/', AUDIO when it
\* starts with 'audio/', and DOCUMENT otherwise; over the allow-list this
\* makes application/pdf and text/plain the only DOCUMENT types.
C20_MediaTypeByPrefix ==
    /\ \A i \in DOMAIN attachments :
          LET m == attachments[i].mime_type
          IN  attachments[i].media_type =
                IF BeginsWith(m, <<"i","m","a","g","e","/">>) THEN "image"
                ELSE IF BeginsWith(m, <<"v","i","d","e","o","/">>) THEN "video"
                ELSE IF BeginsWith(m, <<"a","u","d","i","o","/">>) THEN "audio"
                ELSE "document"
    /\ { m \in ALLOWED_MIME_TYPES : DetermineMediaType(m) = "document" } =
          { <<"a","p","p","l","i","c","a","t","i","o","n","/","p","d","f">>,
            <<"t","e","x","t","/","p","l","a","i","n">> }

\* a video/mp4 upload stored as a video and a text/plain upload stored as a
\* document
C20_Witness ==
    \E i, j \in DOMAIN attachments :
        /\ attachments[i].mime_type = <<"v","i","d","e","o","/","m","p","4">>
        /\ attachments[i].media_type = "video"
        /\ attachments[j].mime_type = <<"t","e","x","t","/","p","l","a","i","n">>
        /\ attachments[j].media_type = "document"

\* C23: in every reachable state, the intermediate states inside
\* add_media_attachment included, the file_path of every persisted
\* attachment row names a file that exists on disk: the file write precedes
\* the row insert, so a row without its file is never observable.
C23_RowHasItsFile ==
    \A i \in DOMAIN attachments : FileExists(attachments[i].file_path)

\* no add_media_attachment call is under way
NoCallUnderWay == \A p \in Procs : pc[p] \in {"idle", "done"}

\* the attachment rows whose file_path is path
RowsAt(path) == { i \in DOMAIN attachments : attachments[i].file_path = path }

\* C24: after any sequence of completed add_media_attachment calls
\* (accepted, rejected, failed at the file write or at the row insert) in
\* which the process never crashes and every attempted cleanup deletion
\* succeeds, every file under the upload directory is referenced by exactly
\* one persisted attachment row: no orphaned file remains.
C24_NoOrphanedFile ==
    NoCallUnderWay => \A f \in files : Cardinality(RowsAt(f.path)) = 1

\* t is a uuid4().hex token: 32 lowercase hexadecimal characters
IsToken(t) ==
    /\ Len(t) = 32
    /\ \A k \in 1..32 : t[k] \in LowerHexChars

\* C28: every accepted attachment is stored directly inside the upload
\* sub-directory named by its complaint's numeric id, under the name
\* '<random token>_<original filename>', and no two persisted attachment
\* rows share a file_path: accepting an attachment never overwrites the file
\* of a previously accepted attachment, even when the same original filename
\* is uploaded again to the same complaint.
C28_OwnPathPerAttachment ==
    /\ [](\A i \in DOMAIN attachments :
            LET a == attachments[i] IN
            /\ Len(a.file_path) = 3
            /\ a.file_path[1] = "uploads"
            /\ a.file_path[2] = a.complaint_id
            /\ Len(a.file_path[3]) = 3
            /\ IsToken(a.file_path[3][1])
            /\ a.file_path[3][2] = "_"
            /\ a.file_path[3][3] = a.original_filename
            /\ \A j \in DOMAIN attachments :
                  attachments[j].file_path = a.file_path => j = i)
    /\ [][\A g \in files' :
            (\E f \in files : f.path = g.path) => g \in files]_vars

\* one filename uploaded twice to one complaint: two rows, two paths, two
\* files
C28_Witness ==
    \E i, j \in DOMAIN attachments :
        /\ i # j
        /\ attachments[i].original_filename = attachments[j].original_filename
        /\ attachments[i].complaint_id = attachments[j].complaint_id
        /\ attachments[i].file_path # attachments[j].file_path
        /\ FileExists(attachments[i].file_path)
        /\ FileExists(attachments[j].file_path)

\* C22: if the store write (commit) fails during create_complaint, the
\* failure is raised to the caller, create_complaint does not retry the
\* write, and no complaint from that call is persisted: the set of persisted
\* complaints is the same as before the call.
C22_CommitFailureRaised ==
    [][\A p \in Callers :
          (pc[p] = "commit" /\ pc'[p] # "refresh") =>
              /\ pc'[p] = "done"
              /\ ret'[p].kind = "raised"
              /\ complaints' = complaints
              /\ \A i \in DOMAIN complaints' :
                    complaints'[i].tracking_id # call[p].tracking_id]_vars

\* a create_complaint call whose commit failed has returned with the error;
\* the store holds the one complaint it held before
C22_Witness ==
    \E p \in Callers :
        /\ pc[p] = "done" /\ call[p].op = "create"
        /\ ret[p] = Raised("OperationalError")
        /\ call[p].complaint.id = NoId
        /\ Len(complaints) = 1

\* C25: the check-then-insert of create_complaint is not atomic: two
\* concurrent calls can hold the same code past the check before either
\* commits; the later commit then fails on the uniqueness constraint, the
\* failure is raised to its caller and not retried with a fresh code, and
\* exactly one of the two complaints is persisted.
RowsWithCode(store, code) ==
    { i \in DOMAIN store : store[i].tracking_id = code }

C25_LaterCommitRaises ==
    [][\A p \in Procs :
          (/\ pc[p] = "commit"
           /\ UniqueViolation(call[p].complaint)
           /\ pc'[p] # pc[p]) =>
              /\ pc'[p] = "done"
              /\ ret'[p].kind = "raised"
              /\ call'[p].tracking_id = call[p].tracking_id
              /\ complaints' = complaints
              /\ Cardinality(RowsWithCode(complaints',
                                          call[p].tracking_id)) = 1]_vars

\* both calls drew one code and passed the check; one was persisted, the
\* other got the uniqueness failure
C25_Witness ==
    \E p \in Procs, q \in Procs :
        /\ p # q
        /\ pc[p] = "done" /\ pc[q] = "done"
        /\ call[p].op = "create" /\ call[q].op = "create"
        /\ call[p].tracking_id = call[q].tracking_id
        /\ ~call[p].retried /\ ~call[q].retried
        /\ ret[p].kind = "created"
        /\ ret[q] = Raised("IntegrityError")
        /\ Cardinality(RowsWithCode(complaints, call[q].tracking_id)) = 1

\* C26: the retry loop of create_complaint exits only with a code that no
\* persisted complaint held at its last check, and with a fair generator
\* create_complaint eventually leaves the loop whenever some code of the
\* keyspace is unused.
UnusedCodeExists ==
    \E u \in Uuid4Hex : ~TrackingIdTaken(GenerateTrackingId(u))

C26_LoopExitsWithUnusedCode ==
    /\ [][\A p \in Callers :
             (pc[p] = "check" /\ pc'[p] # "check") =>
                 /\ pc'[p] = "commit"
                 /\ ~TrackingIdTaken(call[p].tracking_id)
                 /\ call'[p].tracking_id = call[p].tracking_id
                 /\ call'[p].complaint.tracking_id = call[p].tracking_id]_vars
    /\ \A p \in Callers :
          (pc[p] = "check" /\ UnusedCodeExists) ~> (pc[p] = "commit")

\* the loop was left after at least one regeneration, with a code that
\* differs from the stored complaint's
C26_Witness ==
    \E p \in Callers :
        /\ pc[p] = "commit"
        /\ call[p].retried
        /\ Len(complaints) >= 1
        /\ ~TrackingIdTaken(call[p].tracking_id)

RECURSIVE SumUpTo(_, _)
SumUpTo(counts, k) ==
    IF k = 0 THEN 0
    ELSE counts[ComplaintCategory[k]] + SumUpTo(counts, k - 1)

\* C29: every result of get_complaint_statistics is internally consistent:
\* the per-category counts add up to total_complaints, and
\* pending_complaints + resolved_complaints <= total_complaints, also when
\* create_complaint calls commit between the count queries of the call.
C29_StatisticsConsistent ==
    \A p \in Procs :
        (pc[p] = "done" /\ call[p].op = "statistics") =>
            /\ SumUpTo(ret[p].categories, Len(ComplaintCategory))
                  = ret[p].total_complaints
            /\ ret[p].pending_complaints + ret[p].resolved_complaints
                  <= ret[p].total_complaints

\* the number of characters of s between its first and its last character
\* that is not whitespace
TrimmedLength(s) ==
    LET solid == { k \in DOMAIN s : s[k] \notin {" ", "\t", "\n"} }
    IN  IF solid = {} THEN 0
        ELSE (CHOOSE k \in solid : \A j \in solid : j <= k)
             - (CHOOSE k \in solid : \A j \in solid : k <= j) + 1

\* C21: a submission whose title has fewer than 5 characters, or whose
\* description has fewer than 10, after trimming whitespace never reaches
\* create_complaint and leaves the store unchanged; a title of exactly 5
\* characters with a description of at least 10 is accepted and yields a
\* complaint with status PENDING.
C21_ShortFieldsRejected ==
    /\ (TrimmedLength(ui.title) < 5 \/ TrimmedLength(ui.description) < 10) =>
          /\ call[FormCaller] = NoCall
          /\ pc[FormCaller] = "idle"
          /\ complaints = <<>>
          /\ ui.stage = "form"
    /\ (TrimmedLength(ui.title) = 5 /\ TrimmedLength(ui.description) >= 10) =>
          /\ \A m \in ui.notifications :
                m \notin {"Please provide a complaint title",
                          "Please provide a detailed description"}
          /\ (ui.stage = "form" /\ pc[FormCaller] = "idle") => ENABLED SubmitCreate
          /\ \A i \in DOMAIN complaints :
                /\ complaints[i].status = "pending"
                /\ Len(complaints[i].title) = 5
          /\ ui.stage \in {"uploading", "attaching", "finished"} =>
                \E i \in DOMAIN complaints :
                    complaints[i].id = ui.complaint_id

\* the title "Short" with a 12-character description went through: the
\* complaint is stored with status PENDING and the success page is shown
C21_Witness ==
    /\ ui.title = <<"S", "h", "o", "r", "t">>
    /\ TrimmedLength(ui.description) >= 10
    /\ ui.stage = "finished"
    /\ Len(complaints) = 1
    /\ complaints[1].status = "pending"
    /\ complaints[1].title = <<"S", "h", "o", "r", "t">>
    /\ ui.submitted_tracking_id = complaints[1].tracking_id

\* a title of four characters between blanks was turned away
C21_RejectedReached ==
    /\ ui.title = <<" ", "a", "b", "c", "d", " ">>
    /\ "Please provide a complaint title" \in ui.notifications

\* the names of the uploaded files whose add_media_attachment call returned
\* an attachment, in upload order
AcceptedNames ==
    LET tried == SelectSeq([k \in 1..Len(ui.outcomes) |-> k],
                           LAMBDA k : ui.outcomes[k] = "attachment")
    IN  [j \in DOMAIN tried |-> ui.uploaded_files[tried[j]][1]]

PastCreation == ui.stage \in {"uploading", "attaching", "finished"}

\* C30: in the form's submit flow the complaint is created before any
\* attachment is processed; an attachment that raises or is rejected neither
\* removes the complaint, nor stops the remaining files from being
\* attempted, nor prevents the tracking id from being stored and the success
\* page from being shown; once submit_complaint has completed past creation
\* the complaint is persisted with exactly the attachments that were
\* accepted.
C30_FailedAttachmentDoesNotStopSubmit ==
    /\ (call[FormCaller].op = "attach" \/ attachments # <<>>) =>
          /\ PastCreation
          /\ ComplaintExists(ui.complaint_id)
    /\ PastCreation =>
          /\ Len(complaints) = 1
          /\ complaints[1].id = ui.complaint_id
          /\ complaints[1].tracking_id = ui.tracking_id
    /\ ui.stage = "finished" =>
          /\ Len(ui.outcomes) = Len(ui.uploaded_files)
          /\ ui.submitted_tracking_id = complaints[1].tracking_id
          /\ ui.page = "/success"
          /\ [i \in DOMAIN attachments |-> attachments[i].original_filename]
                = AcceptedNames
          /\ \A i \in DOMAIN attachments :
                attachments[i].complaint_id = ui.complaint_id

\* C27: no operation of the service modifies or deletes a persisted
\* complaint: once created, its tracking code, its status (PENDING) and every
\* other field are the same in all later states, and the set of persisted
\* complaints only grows across create_complaint, add_media_attachment,
\* lookup, listing, search and statistics calls.
C27_ComplaintsOnlyGrow ==
    [][/\ Len(complaints') >= Len(complaints)
       /\ \A i \in DOMAIN complaints : complaints'[i] = complaints[i]
       /\ \A i \in DOMAIN complaints' : complaints'[i].status = "pending"]_vars

\* the form added a second complaint with an attachment, one attachment
\* call failed, and a reader has been answered since
C27_Witness ==
    /\ Len(complaints) = 2
    /\ Len(attachments) >= 1
    /\ "Warning: Failed to upload" \in ui.notifications
    /\ ui.stage = "reading"
    /\ pc[FormCaller] = "done"
    /\ call[FormCaller].op = "statistics"

====
